---------------------------- MODULE Spec2Model ----------------------------
(***************************************************************************)
(* A model of the gypsum GPS receiver core.                                *)
(*                                                                         *)
(*   - GpsWorldModel (src/gypsum/world_model.py): the per-satellite        *)
(*     orbital / time parameter sets filled from navigation subframes.     *)
(*   - GpsSatelliteTracker (src/gypsum/tracker.py): the per-millisecond    *)
(*     code / carrier tracking step and its lock detector.                 *)
(*   - GpsReceiver and GpsSatelliteSignalProcessingPipeline                *)
(*     (src/gypsum/receiver.py): the 1 ms step, acquisition, the dispatch  *)
(*     of integrator events, and decode_nav_bits.                          *)
(*                                                                         *)
(* Each component has its own specification over the shared variables:     *)
(* the variables of the other component keep their initial value.          *)
(***************************************************************************)
EXTENDS Integers, Sequences, FiniteSets, TLC

VARIABLES
    \* GpsWorldModel.satellite_ids_to_orbital_parameters (a defaultdict)
    satellite_ids_to_orbital_parameters,
    \* GpsWorldModel.satellite_ids_to_time_parameters (a defaultdict)
    satellite_ids_to_time_parameters,
    \* the arguments of the last handle_subframe_emitted call
    wm_call,
    \* the value the last handle_subframe_emitted call returned
    events_to_return,
    \* history: number of DeterminedSatelliteOrbitEvent returned per satellite
    determined_orbit_events,
    \* history: which of the subframes 2 and 3 were handled per satellite
    ephemeris_subframes_handled,
    \* GpsSatelliteTracker.tracking_params (GpsSatelliteTrackingParameters)
    tracking_params,
    \* GpsSatelliteTracker._is and ._qs
    tracker_is,
    tracker_qs,
    \* the timestamp (in ms) the next process_samples call is made with
    tracker_clock_ms,
    \* the number of process_samples calls made on the tracker
    tracker_calls,
    \* the inputs and the outcome of the last process_samples call
    tracker_call,
    \* GpsReceiver.satellite_ids_eligible_for_acquisition (a list)
    satellite_ids_eligible_for_acquisition,
    \* GpsReceiver.rolling_samples_buffer (a deque): the indices of the
    \* one-millisecond sample windows it holds
    rolling_samples_buffer,
    \* GpsReceiver.tracked_satellite_ids_to_processing_pipelines (a dict)
    tracked_satellite_ids_to_processing_pipelines,
    \* antenna_samples_provider.cursor, in one-millisecond windows: the number
    \* of GpsReceiver.step calls made
    antenna_cursor,
    \* the number of tracker / integrator / decoder objects constructed
    objects_created,
    \* what the last GpsReceiver.step call did
    receiver_step,
    \* history, per satellite: the calls made on its pipeline, its integrator
    \* and its decoder, and what these returned
    pipeline_history,
    \* the argument and the outcome of the last decode_nav_bits call
    decode_call

wm_vars == <<satellite_ids_to_orbital_parameters, satellite_ids_to_time_parameters,
             wm_call, events_to_return, determined_orbit_events,
             ephemeris_subframes_handled>>

tracker_vars == <<tracking_params, tracker_is, tracker_qs, tracker_clock_ms,
                  tracker_calls, tracker_call>>

receiver_vars == <<satellite_ids_eligible_for_acquisition, rolling_samples_buffer,
                   tracked_satellite_ids_to_processing_pipelines, antenna_cursor,
                   objects_created, receiver_step, pipeline_history>>

decode_vars == <<decode_call>>

vars == <<wm_vars, tracker_vars, receiver_vars, decode_vars>>

(***************************************************************************)
(* Bounds of the model.                                                    *)
(***************************************************************************)
\* each subframe 1, 2, 3 is broadcast in MaxIssue different issues of data
MaxIssue == 2

(***************************************************************************)
(* World model: parameter sets.                                            *)
(***************************************************************************)
\* Python's None / a stored value v, as a sequence of length 0 / 1
None == <<>>

Some(v) == <<v>>

\* OrbitalParameterType
OrbitalParameterType == {"SEMI_MAJOR_AXIS", "ECCENTRICITY", "INCLINATION",
                         "LONGITUDE_OF_ASCENDING_NODE", "ARGUMENT_OF_PERIGEE",
                         "MEAN_ANOMALY_AT_REFERENCE_TIME"}

\* TimeParameterType
TimeParameterType == {"WEEK_NUMBER"}

\* ParameterSet.__init__: every parameter type maps to None
ParameterSet(parameter_type) == [t \in parameter_type |-> None]

\* OrbitalParameters()
OrbitalParameters == ParameterSet(OrbitalParameterType)

\* TimeParameters()
TimeParameters == ParameterSet(TimeParameterType)

\* a set that counts as complete as soon as one parameter is known
is_complete_when_any_known(parameter_type_to_value) ==
    \E t \in DOMAIN parameter_type_to_value : parameter_type_to_value[t] # None

\* ParameterSet.is_complete
is_complete(parameter_type_to_value) ==
    ~ \E t \in DOMAIN parameter_type_to_value : parameter_type_to_value[t] = None

\* defaultdict.__getitem__: a missing key is inserted with the default value
defaultdict_getitem(dict, key, default) ==
    IF key \in DOMAIN dict THEN dict ELSE dict @@ (key :> default)

(***************************************************************************)
(* World model: the subframes the decoder can hand over.                   *)
(***************************************************************************)
\* the satellites whose subframes reach the world model: the first and the
\* last PRN
GpsSatelliteIds == {1, 32}

GpsSubframeId == 1..5

Issues == 1..MaxIssue

\* NavigationMessageSubframe1..5: every field of one issue has its own value
NavigationMessageSubframe1 ==
    { [subframe_id |-> 1, week_num |-> 100 + i] : i \in Issues }

NavigationMessageSubframe2 ==
    { [subframe_id |-> 2,
       mean_anomaly_at_reference_time |-> 10 * i + 1,
       eccentricity |-> 10 * i + 2,
       sqrt_semi_major_axis |-> 10 * i + 3] : i \in Issues }

NavigationMessageSubframe3 ==
    { [subframe_id |-> 3,
       inclination_angle |-> 10 * i + 4,
       argument_of_perigee |-> 10 * i + 5,
       longitude_of_ascending_node |-> 10 * i + 6] : i \in Issues }

NavigationMessageSubframe4 == { [subframe_id |-> 4] }

NavigationMessageSubframe5 == { [subframe_id |-> 5] }

NavigationMessageSubframes ==
    NavigationMessageSubframe1 \cup NavigationMessageSubframe2 \cup
    NavigationMessageSubframe3 \cup NavigationMessageSubframe4 \cup
    NavigationMessageSubframe5

(***************************************************************************)
(* World model: GpsWorldModel.                                             *)
(* The _process_subframeN methods mutate the two parameter sets in place;  *)
(* here each returns the pair <<orbital_parameters, time_parameters>>.     *)
(***************************************************************************)
process_subframe1(orbital_parameters, time_parameters, subframe) ==
    << orbital_parameters,
       [time_parameters EXCEPT !["WEEK_NUMBER"] = Some(subframe.week_num)] >>

process_subframe2_without_squaring(orbital_parameters, time_parameters, subframe) ==
    << [orbital_parameters EXCEPT
          !["MEAN_ANOMALY_AT_REFERENCE_TIME"] = Some(subframe.mean_anomaly_at_reference_time),
          !["ECCENTRICITY"] = Some(subframe.eccentricity),
          !["SEMI_MAJOR_AXIS"] = Some(subframe.sqrt_semi_major_axis)],
       time_parameters >>

process_subframe2(orbital_parameters, time_parameters, subframe) ==
    << [orbital_parameters EXCEPT
          !["MEAN_ANOMALY_AT_REFERENCE_TIME"] = Some(subframe.mean_anomaly_at_reference_time),
          !["ECCENTRICITY"] = Some(subframe.eccentricity),
          !["SEMI_MAJOR_AXIS"] = Some(subframe.sqrt_semi_major_axis * subframe.sqrt_semi_major_axis)],
       time_parameters >>

\* subframe 3 written only into the slots that are still empty
process_subframe3_keeping_filled_slots(orbital_parameters, time_parameters, subframe) ==
    LET fill(slot, v) == IF orbital_parameters[slot] = None THEN Some(v)
                         ELSE orbital_parameters[slot]
    IN  << [orbital_parameters EXCEPT
              !["INCLINATION"] = fill("INCLINATION", subframe.inclination_angle),
              !["ARGUMENT_OF_PERIGEE"] =
                  fill("ARGUMENT_OF_PERIGEE", subframe.argument_of_perigee),
              !["LONGITUDE_OF_ASCENDING_NODE"] =
                  fill("LONGITUDE_OF_ASCENDING_NODE", subframe.longitude_of_ascending_node)],
           time_parameters >>

process_subframe3(orbital_parameters, time_parameters, subframe) ==
    << [orbital_parameters EXCEPT
          !["INCLINATION"] = Some(subframe.inclination_angle),
          !["ARGUMENT_OF_PERIGEE"] = Some(subframe.argument_of_perigee),
          !["LONGITUDE_OF_ASCENDING_NODE"] = Some(subframe.longitude_of_ascending_node)],
       time_parameters >>

process_subframe4(orbital_parameters, time_parameters, subframe) ==
    << orbital_parameters, time_parameters >>

process_subframe5(orbital_parameters, time_parameters, subframe) ==
    << orbital_parameters, time_parameters >>

\* the if / elif chain on subframe_id of handle_subframe_emitted
process_subframe(orbital_parameters, time_parameters, subframe) ==
    CASE subframe.subframe_id = 1 ->
           process_subframe1(orbital_parameters, time_parameters, subframe)
      [] subframe.subframe_id = 2 ->
           process_subframe2(orbital_parameters, time_parameters, subframe)
      [] subframe.subframe_id = 3 ->
           process_subframe3(orbital_parameters, time_parameters, subframe)
      [] subframe.subframe_id = 4 ->
           process_subframe4(orbital_parameters, time_parameters, subframe)
      [] subframe.subframe_id = 5 ->
           process_subframe5(orbital_parameters, time_parameters, subframe)
      [] OTHER -> << orbital_parameters, time_parameters >>

\* DeterminedSatelliteOrbitEvent(satellite_id, orbital_parameters)
DeterminedSatelliteOrbitEvent(satellite_id, orbital_parameters) ==
    [type |-> "DeterminedSatelliteOrbitEvent",
     satellite_id |-> satellite_id,
     orbital_parameters |-> orbital_parameters]

\* the events of a call that found the set complete every time it looked
events_whenever_complete(satellite_id, were_orbit_params_already_complete, orbital_parameters) ==
    IF is_complete(orbital_parameters)
    THEN << DeterminedSatelliteOrbitEvent(satellite_id, orbital_parameters) >>
    ELSE << >>

\* "Check whether we've just completed the set of orbital parameters"
events_for_completion(satellite_id, were_orbit_params_already_complete, orbital_parameters) ==
    IF ~ were_orbit_params_already_complete
    THEN IF is_complete(orbital_parameters)
         THEN << DeterminedSatelliteOrbitEvent(satellite_id, orbital_parameters) >>
         ELSE << >>
    ELSE << >>

\* an in-place update when all satellites share one parameter-set object
store_parameters_shared(dict, satellite_id, parameters) ==
    [k \in DOMAIN dict |-> parameters]

\* the dict an in-place update of the parameter set of one satellite leaves
store_parameters(dict, satellite_id, parameters) ==
    [dict EXCEPT ![satellite_id] = parameters]

\* GpsWorldModel.handle_subframe_emitted(satellite_id, emit_subframe_event)
handle_subframe_emitted(satellite_id, subframe) ==
    LET orbital_dict == defaultdict_getitem(satellite_ids_to_orbital_parameters,
                                            satellite_id, OrbitalParameters)
        time_dict == defaultdict_getitem(satellite_ids_to_time_parameters,
                                         satellite_id, TimeParameters)
        orbital_params_for_this_satellite == orbital_dict[satellite_id]
        time_params_for_this_satellite == time_dict[satellite_id]
        were_orbit_params_already_complete ==
            is_complete(orbital_params_for_this_satellite)
        processed == process_subframe(orbital_params_for_this_satellite,
                                      time_params_for_this_satellite, subframe)
        events == events_for_completion(satellite_id,
                                        were_orbit_params_already_complete,
                                        processed[1])
    IN  /\ satellite_ids_to_orbital_parameters' =
              store_parameters(orbital_dict, satellite_id, processed[1])
        /\ satellite_ids_to_time_parameters' =
              store_parameters(time_dict, satellite_id, processed[2])
        /\ events_to_return' = events
        /\ wm_call' = [satellite_id |-> satellite_id, subframe |-> subframe]
        /\ determined_orbit_events' =
              [determined_orbit_events EXCEPT ![satellite_id] = @ + Len(events)]
        /\ ephemeris_subframes_handled' =
              [ephemeris_subframes_handled EXCEPT
                 ![satellite_id] = @ \cup ({subframe.subframe_id} \cap {2, 3})]

\* GpsWorldModel.__init__, before any call
WorldModelInit ==
    /\ satellite_ids_to_orbital_parameters = << >>
    /\ satellite_ids_to_time_parameters = << >>
    /\ wm_call = [satellite_id |-> 0, subframe |-> [subframe_id |-> 0]]
    /\ events_to_return = << >>
    /\ determined_orbit_events = [s \in GpsSatelliteIds |-> 0]
    /\ ephemeris_subframes_handled = [s \in GpsSatelliteIds |-> {}]

(***************************************************************************)
(* Tracker: constants and units.                                           *)
(*                                                                         *)
(* The correlation of one millisecond of samples with the PRN replica      *)
(* (frequency_domain_correlation) enters the model as its two results the  *)
(* tracker reads: the index of the magnitude peak and the complex peak     *)
(* value <<real, imag>>, both drawn from small sets of integers.           *)
(*                                                                         *)
(* Carrier phase is counted in units of 4 * zeta * T radians and Doppler   *)
(* shift in units of 4 * T Hz (T = 1 / SAMPLES_PER_SECOND), so that the    *)
(* loop gains alpha = 4 * zeta * B * T and beta = 4 * B^2 * T are the      *)
(* integers B and B^2.  Arithmetic on these is exact.  Timestamps are      *)
(* whole milliseconds.                                                     *)
(***************************************************************************)
\* gypsum.constants.SAMPLES_PER_PRN_TRANSMISSION
SAMPLES_PER_PRN_TRANSMISSION == 2046

\* previous_milliseconds_to_consider of _is_locked
previous_milliseconds_to_consider == 250

\* math.tau, in phase units
TauInPhaseUnits == 16

\* process_samples is called at most MaxTrackerCalls times in the tracker runs
MaxTrackerCalls == 4

\* and at most MaxLongRunCalls times in the long runs on a steady signal
MaxLongRunCalls == 505

\* the index of the correlation magnitude peak (np.argmax)
PeakOffsets == {0, 1, 1023, 1024, 2045}

\* the complex correlation value at the peak, <<real, imag>>
PeakValues == { <<1, 1>>, <<-1, 1>>, <<0, 1>>, <<1, 0>> }

\* what acquisition hands to the tracker; np.angle is in (-pi, pi], and the
\* code phase is not reduced modulo the PRN length before the first call
AcquiredCarrierPhases == { -(TauInPhaseUnits \div 4), 0, TauInPhaseUnits \div 2 }

AcquiredCodePhases == { 0, SAMPLES_PER_PRN_TRANSMISSION - 1,
                        2 * SAMPLES_PER_PRN_TRANSMISSION }

\* the timestamp, in ms, of the first call on a tracker
StartTimesMs == { 20, 4998 }

\* and at most MaxLockedRunCalls times in the runs through lock
MaxLockedRunCalls == 270

\* the timestamp, in ms, of the first call of a run through lock: 262 ms
\* before the end of the first second, and 250 ms before the last 10 ms of
\* the fifth
LockedRunStartTimesMs == { 738, 4740 }

(***************************************************************************)
(* Tracker: numpy helpers.                                                 *)
(***************************************************************************)
RECURSIVE SumRange(_, _, _)
\* sum(s[lo..hi]), halving the range
SumRange(s, lo, hi) ==
    IF lo > hi THEN 0
    ELSE IF lo = hi THEN s[lo]
    ELSE LET mid == (lo + hi) \div 2
         IN  SumRange(s, lo, mid) + SumRange(s, mid + 1, hi)

\* sum(s)
Sum(s) == SumRange(s, 1, Len(s))

\* sum(x * x for x in s)
SumSquares(s) == SumRange([i \in 1..Len(s) |-> s[i] * s[i]], 1, Len(s))

Abs(x) == IF x < 0 THEN -x ELSE x

\* the slice s[-n:]
LastN(s, n) == IF Len(s) <= n THEN s ELSE SubSeq(s, Len(s) - n + 1, Len(s))

\* np.var(s) * len(s)^2, for a non-empty s:  n * sum(x^2) - sum(x)^2
VarTimesLenSquared(s) ==
    Len(s) * SumSquares(s) - Sum(s) * Sum(s)

\* np.sign
np_sign(x) == IF x > 0 THEN 1 ELSE IF x < 0 THEN -1 ELSE 0

(***************************************************************************)
(* Tracker: GpsSatelliteTracker.                                           *)
(***************************************************************************)
\* NavigationBitPseudosymbol.from_val: a dict lookup, KeyError on other keys
NavigationBitPseudosymbol_from_val(val) ==
    CASE val = -1 -> "MINUS_ONE"
      [] val = 1 -> "ONE"
      [] OTHER -> "KeyError"

\* is_phase_error_variance_under_threshold of _is_locked
is_phase_error_variance_under_threshold(carrier_wave_phase_errors) ==
    LET last_few_phase_errors ==
            LastN(carrier_wave_phase_errors, previous_milliseconds_to_consider)
    IN  VarTimesLenSquared(last_few_phase_errors) <
            900 * Len(last_few_phase_errors) * Len(last_few_phase_errors)

\* does_i_channel_look_locked of _is_locked; np.var of an empty list is nan,
\* and nan < 2 is False
does_i_channel_look_locked(is) ==
    IF Len(is) > 2
    THEN LET last_few_i_values == LastN(is, previous_milliseconds_to_consider)
             positive_i_values == SelectSeq(last_few_i_values, LAMBDA x : x >= 0)
             negative_i_values == SelectSeq(last_few_i_values, LAMBDA x : x < 0)
             np == Len(positive_i_values)
             nn == Len(negative_i_values)
         IN  /\ np > 0
             /\ nn > 0
             \* (positive_var + negative_var) / 2.0 < 2
             /\ VarTimesLenSquared(positive_i_values) * nn * nn
                  + VarTimesLenSquared(negative_i_values) * np * np
                < 4 * np * np * nn * nn
    ELSE TRUE

\* is_constellation_rotation_acceptable of _is_locked.  For the mean
\* left_point of the points with real < 0, centered_angle is the angle
\* between left_point and the negative real axis, in degrees, so
\* centered_angle < 6 iff |imag| < tan(6 deg) * |real|, tan(6 deg) = 0.105104...;
\* the mean of no points is nan, and nan < 6 is False
is_constellation_rotation_acceptable(is, qs) ==
    LET n == IF Len(is) < Len(qs) THEN Len(is) ELSE Len(qs)
        left == { i \in 1..n : is[i] < 0 }
        left_real == Sum([i \in 1..n |-> IF i \in left THEN is[i] ELSE 0])
        left_imag == Sum([i \in 1..n |-> IF i \in left THEN qs[i] ELSE 0])
    IN  IF n > 2
        THEN /\ left # {}
             /\ Abs(left_imag) * 1000000 < 105104 * Abs(left_real)
        ELSE TRUE

\* _is_locked without the check of the length of the history
is_locked_on_any_history(carrier_wave_phase_errors, is, qs) ==
    /\ carrier_wave_phase_errors # << >>
    /\ is_phase_error_variance_under_threshold(carrier_wave_phase_errors)
    /\ does_i_channel_look_locked(is)
    /\ is_constellation_rotation_acceptable(is, qs)

\* GpsSatelliteTracker._is_locked
is_locked(carrier_wave_phase_errors, is, qs) ==
    IF Len(carrier_wave_phase_errors) < previous_milliseconds_to_consider
    THEN FALSE
    ELSE /\ is_phase_error_variance_under_threshold(carrier_wave_phase_errors)
         /\ does_i_channel_look_locked(is)
         /\ is_constellation_rotation_acceptable(is, qs)

\* GpsSatelliteTracker._calculate_loop_filter_alpha_and_beta, <<alpha, beta>>
\* in phase units and Doppler units
calculate_loop_filter_alpha_and_beta(loop_bandwidth) ==
    << loop_bandwidth, loop_bandwidth * loop_bandwidth >>

\* a recentring that takes the offset of exactly half a PRN period as negative
centered_peak_offset_below_half(non_coherent_prompt_peak_offset) ==
    IF 2 * non_coherent_prompt_peak_offset < SAMPLES_PER_PRN_TRANSMISSION
    THEN non_coherent_prompt_peak_offset
    ELSE non_coherent_prompt_peak_offset - SAMPLES_PER_PRN_TRANSMISSION

\* "Recenter the code phase offset so that it looks positive or negative"
centered_peak_offset(non_coherent_prompt_peak_offset) ==
    IF 2 * non_coherent_prompt_peak_offset <= SAMPLES_PER_PRN_TRANSMISSION
    THEN non_coherent_prompt_peak_offset
    ELSE non_coherent_prompt_peak_offset - SAMPLES_PER_PRN_TRANSMISSION

\* the += 1 / -= 1 of the code phase
slide_code_phase(current_prn_code_phase_shift, centered_non_coherent_prompt_peak_offset) ==
    IF centered_non_coherent_prompt_peak_offset > 0
    THEN current_prn_code_phase_shift + 1
    ELSE IF centered_non_coherent_prompt_peak_offset < 0
         THEN current_prn_code_phase_shift - 1
         ELSE current_prn_code_phase_shift

\* a code phase that is left as it was slid
keep_code_phase(current_prn_code_phase_shift) == current_prn_code_phase_shift

\* "ensure we're always sliding within one PRN transmission"
wrap_code_phase(current_prn_code_phase_shift) ==
    current_prn_code_phase_shift % SAMPLES_PER_PRN_TRANSMISSION

\* a loop filter that keeps the gains of the 6 Hz bandwidth once locked
test5_with_unlocked_gains(p, is, qs, sample) ==
    LET error == sample[1] * sample[2]
        alpha_beta == calculate_loop_filter_alpha_and_beta(6)
    IN  [p EXCEPT
           !.current_carrier_wave_phase_shift =
               (@ + error * alpha_beta[1]) % TauInPhaseUnits,
           !.current_doppler_shift = @ + error * alpha_beta[2],
           !.carrier_wave_phase_errors = Append(@, error)]

\* a loop filter that starts the phase-error history afresh when it finds
\* the tracker locked
test5_restarting_history_on_lock(p, is, qs, sample) ==
    LET error == sample[1] * sample[2]
        locked == is_locked(p.carrier_wave_phase_errors, is, qs)
        alpha_beta ==
            IF locked
            THEN calculate_loop_filter_alpha_and_beta(3)
            ELSE calculate_loop_filter_alpha_and_beta(6)
    IN  [p EXCEPT
           !.current_carrier_wave_phase_shift =
               (@ + error * alpha_beta[1]) % TauInPhaseUnits,
           !.current_doppler_shift = @ + error * alpha_beta[2],
           !.carrier_wave_phase_errors =
               IF locked THEN << error >> ELSE Append(@, error)]

\* GpsSatelliteTracker._test5 on tracking_params p, given _is and _qs as
\* they are when it is called
test5(p, is, qs, sample) ==
    LET error == sample[1] * sample[2]
        alpha_beta ==
            IF is_locked(p.carrier_wave_phase_errors, is, qs)
            THEN calculate_loop_filter_alpha_and_beta(3)
            ELSE calculate_loop_filter_alpha_and_beta(6)
    IN  [p EXCEPT
           !.current_carrier_wave_phase_shift =
               (@ + error * alpha_beta[1]) % TauInPhaseUnits,
           !.current_doppler_shift = @ + error * alpha_beta[2],
           !.carrier_wave_phase_errors = Append(@, error)]

\* the pseudosymbol ring after a call that, like the phase-error history,
\* starts it afresh in the last 10 ms of every 5 s
ring_after_call_cleared_with_errors(navigation_bit_pseudosymbols, seconds_since_start_ms) ==
    IF seconds_since_start_ms % 5000 >= 4990
    THEN << >>
    ELSE navigation_bit_pseudosymbols

\* the pseudosymbol ring after a call: process_samples appends to the list
\* and nothing in the class removes an entry of it
ring_after_call(navigation_bit_pseudosymbols, seconds_since_start_ms) ==
    navigation_bit_pseudosymbols

\* a phase-error history that no call empties
phase_errors_kept_after_call(carrier_wave_phase_errors, seconds_since_start_ms) ==
    carrier_wave_phase_errors

\* "if seconds_since_start % 5 >= 4.99: ... carrier_wave_phase_errors = []"
phase_errors_after_call(carrier_wave_phase_errors, seconds_since_start_ms) ==
    IF seconds_since_start_ms % 5000 >= 4990
    THEN << >>
    ELSE carrier_wave_phase_errors

\* GpsSatelliteTracker.process_samples(seconds_since_start, samples), where
\* the correlation of the samples peaks at index non_coherent_prompt_peak_offset
\* with the value coherent_prompt_prn_correlation_peak
process_samples(non_coherent_prompt_peak_offset, coherent_prompt_prn_correlation_peak) ==
    LET seconds_since_start_ms == tracker_clock_ms
        params == tracking_params
        code_phase ==
            wrap_code_phase(
                slide_code_phase(params.current_prn_code_phase_shift,
                                 centered_peak_offset(non_coherent_prompt_peak_offset)))
        navigation_bit_pseudosymbol_value ==
            np_sign(coherent_prompt_prn_correlation_peak[1])
        params1 == [params EXCEPT
                      !.current_prn_code_phase_shift = code_phase,
                      !.navigation_bit_pseudosymbols =
                          Append(@, navigation_bit_pseudosymbol_value)]
        is1 == Append(tracker_is, coherent_prompt_prn_correlation_peak[1])
        qs1 == Append(tracker_qs, coherent_prompt_prn_correlation_peak[2])
        was_locked == is_locked(params1.carrier_wave_phase_errors, is1, qs1)
        params2 == test5(params1, is1, qs1, coherent_prompt_prn_correlation_peak)
        params3 == [params2 EXCEPT
                      !.doppler_shifts = Append(@, params2.current_doppler_shift),
                      !.carrier_wave_phases =
                          Append(@, params2.current_carrier_wave_phase_shift)]
        \* if seconds_since_start % 5 >= 4.99
        params4 == [params3 EXCEPT
                      !.carrier_wave_phase_errors =
                          phase_errors_after_call(@, seconds_since_start_ms),
                      !.navigation_bit_pseudosymbols =
                          ring_after_call(@, seconds_since_start_ms)]
        \* if (seconds_since_start % 1) == 0
        on_whole_second == seconds_since_start_ms % 1000 = 0
    IN  \* nothing catches the KeyError of from_val: it ends the run
        /\ tracker_call.result # "KeyError"
        /\ tracking_params' = params4
        /\ tracker_is' = IF on_whole_second THEN << >> ELSE is1
        /\ tracker_qs' = IF on_whole_second THEN << >> ELSE qs1
        /\ tracker_clock_ms' = tracker_clock_ms + 1
        /\ tracker_calls' = tracker_calls + 1
        /\ tracker_call' =
              [seconds_since_start_ms |-> seconds_since_start_ms,
               peak_offset |-> non_coherent_prompt_peak_offset,
               peak |-> coherent_prompt_prn_correlation_peak,
               was_locked |-> was_locked,
               result |-> NavigationBitPseudosymbol_from_val(
                              navigation_bit_pseudosymbol_value)]

\* GpsSatelliteSignalProcessingPipeline.__init__: the tracking parameters
\* built from an acquisition result, with empty histories
GpsSatelliteTrackingParameters(doppler_shift, carrier_wave_phase_shift, prn_phase_shift) ==
    [current_doppler_shift |-> doppler_shift,
     current_carrier_wave_phase_shift |-> carrier_wave_phase_shift,
     current_prn_code_phase_shift |-> prn_phase_shift,
     doppler_shifts |-> << >>,
     carrier_wave_phases |-> << >>,
     carrier_wave_phase_errors |-> << >>,
     navigation_bit_pseudosymbols |-> << >>]

\* GpsSatelliteTracker.__init__ on the parameters of an acquisition result
TrackerInit ==
    /\ \E carrier_phase \in AcquiredCarrierPhases, code_phase \in AcquiredCodePhases :
          tracking_params = GpsSatelliteTrackingParameters(0, carrier_phase, code_phase)
    /\ tracker_is = << >>
    /\ tracker_qs = << >>
    /\ tracker_clock_ms \in StartTimesMs
    /\ tracker_calls = 0
    /\ tracker_call = [seconds_since_start_ms |-> 0, peak_offset |-> 0,
                       peak |-> <<0, 0>>, was_locked |-> FALSE, result |-> "none"]

\* a steady signal: the prompt peak stays at offset 0 on the real axis and
\* changes sign with the navigation bits, every 20 ms
SteadySignalPeak(seconds_since_start_ms) ==
    IF (seconds_since_start_ms \div 20) % 2 = 0 THEN <<1, 0>> ELSE <<-1, 0>>

(***************************************************************************)
(* Receiver: what a pipeline is built from.                                *)
(*                                                                         *)
(* receiver.py is written against a tracker that is constructed from the   *)
(* tracking parameters alone and whose process_samples takes (samples,     *)
(* sample_index) and returns a pseudosymbol; the receiver model takes the  *)
(* two calls as calls on such a tracker.  (GpsSatelliteTracker of          *)
(* tracker.py takes a loop_bandwidth as well, and its process_samples      *)
(* takes (seconds_since_start, samples): on it, the constructor call of    *)
(* the pipeline raises TypeError: ReceiverAsBuiltSpec is the receiver on    *)
(* that tracker.)  The integrator, the decoder and the satellite detector  *)
(* enter the model by what their calls return.                             *)
(***************************************************************************)
\* gypsum.config.ACQUISITION_INTEGRATION_PERIOD_MS
ACQUISITION_INTEGRATION_PERIOD_MS == 20

\* GpsReceiver.step is called at most MaxReceiverSteps times
MaxReceiverSteps == 21

\* and at most MaxAsBuiltSteps times on the tracker of tracker.py
MaxAsBuiltSteps == 64

\* process_pseudosymbol returns at most MaxEventsPerCall events
MaxEventsPerCall == 2

\* the keys of integrator_event_type_to_callback
integrator_event_type_to_callback ==
    {"DeterminedBitPhaseEvent", "CannotDetermineBitPhaseEvent", "EmitNavigationBitEvent"}

DeterminedBitPhaseEvent == [type |-> "DeterminedBitPhaseEvent", bit_value |-> 0]

CannotDetermineBitPhaseEvent == [type |-> "CannotDetermineBitPhaseEvent", bit_value |-> 0]

EmitNavigationBitEvent(bit_value) ==
    [type |-> "EmitNavigationBitEvent", bit_value |-> bit_value]

\* an Event of a type that integrator_event_type_to_callback does not hold
OtherEvent == [type |-> "Event", bit_value |-> 0]

\* the events after which the integrator goes on producing events
ContinuingIntegratorEvents ==
    {DeterminedBitPhaseEvent, EmitNavigationBitEvent(0), EmitNavigationBitEvent(1),
     OtherEvent}

RECURSIVE SeqsUpTo(_, _)
\* the sequences over S of length at most n
SeqsUpTo(S, n) ==
    IF n = 0 THEN { << >> }
    ELSE LET shorter == SeqsUpTo(S, n - 1)
         IN  shorter \cup { Append(q, e) : q \in { x \in shorter : Len(x) = n - 1 },
                                           e \in S }

\* what NavigationBitIntegrator.process_pseudosymbol can return: a list of
\* events in which a CannotDetermineBitPhaseEvent, after which the
\* integrator produces nothing more, can only be the last one
IntegratorEventLists ==
    SeqsUpTo(ContinuingIntegratorEvents, MaxEventsPerCall) \cup
    { Append(q, CannotDetermineBitPhaseEvent) :
        q \in SeqsUpTo(ContinuingIntegratorEvents, MaxEventsPerCall - 1) }

\* the subframes an EmitSubframeEvent of the decoder can carry
DecoderSubframes == { sf \in NavigationMessageSubframe2 : sf.eccentricity = 12 }

EmitSubframeEvent(subframe) == [type |-> "EmitSubframeEvent", subframe |-> subframe]

\* what the process_bit_from_satellite calls of one step can return: the
\* k-th call of the step returns decoder_returns[k]; at most one of them
\* completes a subframe
DecoderReturns ==
    { [k \in 1..MaxEventsPerCall |-> << >>] } \cup
    { [k \in 1..MaxEventsPerCall |->
          IF k = at THEN << EmitSubframeEvent(sf) >> ELSE << >>] :
        at \in 1..MaxEventsPerCall, sf \in DecoderSubframes }

\* what tracker.process_samples can do: return a pseudosymbol, or raise the
\* KeyError of NavigationBitPseudosymbol.from_val
TrackerOutcomes == {"MINUS_ONE", "ONE", "KeyError"}

\* the parameters of GpsSatelliteTracker.__init__ of tracker.py after self;
\* neither has a default value
GpsSatelliteTracker_init_parameters == << "tracking_params", "loop_bandwidth" >>

\* the parameters of the constructor of the tracker that receiver.py is
\* written against
tracker_init_parameters_of_receiver == << "tracking_params" >>

\* the arguments of "self.tracker = GpsSatelliteTracker(tracking_params)"
pipeline_tracker_arguments == << "tracking_params" >>

\* a call that gives positional arguments to parameters without defaults
call_outcome(parameters, arguments) ==
    IF Len(arguments) = Len(parameters) THEN "returned" ELSE "TypeError"

\* GpsSatelliteSignalProcessingPipeline.__init__: a new tracker, a new
\* integrator and a new decoder; the objects made so far are 1..first - 1
GpsSatelliteSignalProcessingPipeline(satellite_id, first) ==
    [satellite |-> satellite_id,
     state |-> "PROVISIONAL_PROBE",
     tracker |-> first,
     pseudosymbol_integrator |-> first + 1,
     navigation_message_decoder |-> first + 2]

\* the history of a satellite that has no pipeline yet
NoPipelineHistory ==
    [process_samples_calls |-> << >>,
     integrator_pseudosymbols |-> << >>,
     integrator_events |-> << >>,
     integrator_bits |-> << >>,
     dispatched |-> << >>,
     decoder_bits |-> << >>,
     decoder_subframes |-> {},
     cannot_determine_dispatched |-> FALSE,
     raised |-> "none"]

\* the bit values of the EmitNavigationBitEvents of a list of events
bit_values(events) ==
    LET emitted == SelectSeq(events, LAMBDA e : e.type = "EmitNavigationBitEvent")
    IN  [i \in 1..Len(emitted) |-> emitted[i].bit_value]

(***************************************************************************)
(* Receiver: GpsSatelliteSignalProcessingPipeline.                         *)
(* The methods act on the history record h of the pipeline's satellite;    *)
(* h.raised names the exception that left the method, "none" if it         *)
(* returned.                                                               *)
(***************************************************************************)
\* event_type not in integrator_event_type_to_callback, were every type a key
is_event_type_without_callback_never(event_type) == FALSE

\* event_type not in integrator_event_type_to_callback
is_event_type_without_callback(event_type) ==
    event_type \notin integrator_event_type_to_callback

\* _handle_integrator_determined_bit_phase: logs
handle_integrator_determined_bit_phase(h, event, decoder_returns) ==
    [h EXCEPT !.dispatched = Append(@, event)]

\* a handler of CannotDetermineBitPhaseEvent that logs and returns
handle_integrator_cannot_determine_bit_phase_and_return(h, event, decoder_returns) ==
    [h EXCEPT !.dispatched = Append(@, event),
              !.cannot_determine_dispatched = TRUE]

\* _handle_integrator_cannot_determine_bit_phase: logs, then raises
\* NotImplementedError
handle_integrator_cannot_determine_bit_phase(h, event, decoder_returns) ==
    [h EXCEPT !.dispatched = Append(@, event),
              !.cannot_determine_dispatched = TRUE,
              !.raised = "NotImplementedError"]

\* a handler of EmitNavigationBitEvent that gives the decoder the bit twice
handle_integrator_emitted_bit_twice(h, event, decoder_returns) ==
    [h EXCEPT !.dispatched = Append(@, event),
              !.decoder_bits = Append(Append(@, event.bit_value), event.bit_value)]

\* _handle_integrator_emitted_bit: logs, calls
\* navigation_message_decoder.process_bit_from_satellite(event.bit_value)
\* and prints the events this returns
handle_integrator_emitted_bit(h, event, decoder_returns) ==
    LET call == Len(bit_values(h.dispatched)) + 1
        decoder_events == decoder_returns[call]
    IN  [h EXCEPT !.dispatched = Append(@, event),
                  !.decoder_bits = Append(@, event.bit_value),
                  !.decoder_subframes =
                      @ \cup { decoder_events[i].subframe : i \in DOMAIN decoder_events }]

\* callback(event) for the callback integrator_event_type_to_callback holds
callback(h, event, decoder_returns) ==
    CASE event.type = "DeterminedBitPhaseEvent" ->
           handle_integrator_determined_bit_phase(h, event, decoder_returns)
      [] event.type = "CannotDetermineBitPhaseEvent" ->
           handle_integrator_cannot_determine_bit_phase(h, event, decoder_returns)
      [] event.type = "EmitNavigationBitEvent" ->
           handle_integrator_emitted_bit(h, event, decoder_returns)
      [] OTHER -> h

RECURSIVE dispatch_integrator_events(_, _, _, _)
\* "for event in integrator_events", from the i-th event on
dispatch_integrator_events(h, integrator_events, i, decoder_returns) ==
    IF i > Len(integrator_events) THEN h
    ELSE LET event == integrator_events[i]
         IN  IF is_event_type_without_callback(event.type)
             THEN [h EXCEPT !.raised = "UnknownEventError"]
             ELSE LET after == callback(h, event, decoder_returns)
                  IN  IF after.raised # "none" THEN after
                      ELSE dispatch_integrator_events(after, integrator_events,
                                                      i + 1, decoder_returns)

\* GpsSatelliteSignalProcessingPipeline.process_samples(samples, sample_index)
\* where the tracker call has the outcome tracker_outcome and the integrator
\* returns integrator_events
pipeline_process_samples(h, sample_index, tracker_outcome, integrator_events, decoder_returns) ==
    LET called == [h EXCEPT !.process_samples_calls = Append(@, sample_index),
                            !.integrator_events = << >>,
                            !.dispatched = << >>]
    IN  IF tracker_outcome = "KeyError"
        THEN [called EXCEPT !.raised = "KeyError"]
        ELSE dispatch_integrator_events(
                 [called EXCEPT
                    !.integrator_pseudosymbols = Append(@, sample_index),
                    !.integrator_events = integrator_events,
                    !.integrator_bits = @ \o bit_values(integrator_events)],
                 integrator_events, 1, decoder_returns)

(***************************************************************************)
(* Receiver: GpsReceiver.                                                  *)
(***************************************************************************)
\* collections.deque(maxlen=...).append
deque_append(deque, maxlen, x) == LastN(Append(deque, x), maxlen)

\* the elements of a list
Range(s) == { s[i] : i \in DOMAIN s }

\* step runs acquisition while fewer than the 4 satellites of a position fix
\* are tracked
should_perform_acquisition_below_four(tracked_count) == tracked_count < 4

\* "if len(self.tracked_satellite_ids_to_processing_pipelines) < 1"
should_perform_acquisition(tracked_count) == tracked_count < 1

\* a buffer that counts as primed with one window less
is_buffer_primed_one_early(buffer) ==
    ~ (Len(buffer) < ACQUISITION_INTEGRATION_PERIOD_MS - 1)

\* not "len(self.rolling_samples_buffer) < ACQUISITION_INTEGRATION_PERIOD_MS"
is_buffer_primed(buffer) ==
    ~ (Len(buffer) < ACQUISITION_INTEGRATION_PERIOD_MS)

\* what detect_satellites_in_antenna_data can return for the satellites it
\* is asked to search: a result for some of them, in the order of the list
DetectorResults(eligible) ==
    { SelectSeq(eligible, LAMBDA s : s \in found) : found \in SUBSET Range(eligible) }

\* the pipelines after "for satellite_acquisition_result in
\* newly_acquired_satellites": the k-th result gets a pipeline of new objects
pipelines_after_acquisition(pipelines, newly_acquired_satellites, created) ==
    LET new == [k \in 1..Len(newly_acquired_satellites) |->
                   GpsSatelliteSignalProcessingPipeline(
                       newly_acquired_satellites[k], created + 3 * (k - 1) + 1)]
        last(s) == CHOOSE k \in 1..Len(newly_acquired_satellites) :
                      /\ newly_acquired_satellites[k] = s
                      /\ \A j \in (k + 1)..Len(newly_acquired_satellites) :
                            newly_acquired_satellites[j] # s
    IN  [s \in DOMAIN pipelines \cup Range(newly_acquired_satellites) |->
            IF s \in Range(newly_acquired_satellites) THEN new[last(s)]
            ELSE pipelines[s]]

RECURSIVE track_satellites_acquired_earlier(_, _, _, _, _)
\* a tracking loop that passes over the pipelines that have not processed a
\* window yet, as the ones made by this step's acquisition
track_satellites_acquired_earlier(histories, satellite_ids, i, sample_index, inputs) ==
    IF i > Len(satellite_ids) THEN histories
    ELSE LET s == satellite_ids[i]
             after == pipeline_process_samples(
                          histories[s], sample_index, inputs[s].tracker_outcome,
                          inputs[s].integrator_events, inputs[s].decoder_returns)
         IN  IF histories[s].process_samples_calls = << >>
             THEN track_satellites_acquired_earlier(histories, satellite_ids, i + 1,
                                                    sample_index, inputs)
             ELSE IF after.raised # "none"
                  THEN [histories EXCEPT ![s] = after]
                  ELSE track_satellites_acquired_earlier(
                           [histories EXCEPT ![s] = after],
                           satellite_ids, i + 1, sample_index, inputs)

RECURSIVE track_acquired_satellites(_, _, _, _, _)
\* _track_acquired_satellites: "for _satellite_id, pipeline in ...items()",
\* from the i-th tracked satellite on; an exception leaves the loop
track_acquired_satellites(histories, satellite_ids, i, sample_index, inputs) ==
    IF i > Len(satellite_ids) THEN histories
    ELSE LET s == satellite_ids[i]
             after == pipeline_process_samples(
                          histories[s], sample_index, inputs[s].tracker_outcome,
                          inputs[s].integrator_events, inputs[s].decoder_returns)
         IN  IF after.raised # "none"
             THEN [histories EXCEPT ![s] = after]
             ELSE track_acquired_satellites([histories EXCEPT ![s] = after],
                                            satellite_ids, i + 1, sample_index, inputs)

\* what the calls made for one pipeline in one step return: the tracker
\* raises, or it returns a pseudosymbol, the integrator a list of events, and
\* the decoder an answer to each bit of the list
PipelineInputs ==
    { [tracker_outcome |-> "KeyError", integrator_events |-> << >>,
       decoder_returns |-> [k \in 1..MaxEventsPerCall |-> << >>]] } \cup
    UNION { { [tracker_outcome |-> pseudosymbol, integrator_events |-> events,
               decoder_returns |-> decoder_returns] :
                decoder_returns \in
                    { d \in DecoderReturns :
                        \A k \in DOMAIN d : k > Len(bit_values(events)) => d[k] = << >> } } :
            pseudosymbol \in TrackerOutcomes \ {"KeyError"},
            events \in IntegratorEventLists }

\* the exception that left the loop over the pipelines, "none" if none did
raised_by(histories) ==
    IF \E s \in DOMAIN histories : histories[s].raised # "none"
    THEN histories[CHOOSE s \in DOMAIN histories : histories[s].raised # "none"].raised
    ELSE "none"

\* step calls _perform_acquisition
is_acquisition_attempted ==
    should_perform_acquisition(
        Cardinality(DOMAIN tracked_satellite_ids_to_processing_pipelines))

\* _perform_acquisition does not return before it calls the detector:
\* the buffer it looks at holds the window of this step
is_detector_invoked ==
    /\ is_acquisition_attempted
    /\ is_buffer_primed(deque_append(rolling_samples_buffer,
                                     ACQUISITION_INTEGRATION_PERIOD_MS, antenna_cursor))

\* GpsReceiver.step on a tracker class whose constructor has the parameters
\* tracker_init_parameters, where the detector, if it is called, returns
\* newly_acquired_satellites and the calls made for the pipeline of
\* satellite s return inputs[s]
step_with_tracker(tracker_init_parameters, newly_acquired_satellites, inputs) ==
    LET sample_index == antenna_cursor
        buffer == deque_append(rolling_samples_buffer,
                               ACQUISITION_INTEGRATION_PERIOD_MS, sample_index)
        tracked_before == DOMAIN tracked_satellite_ids_to_processing_pipelines
        acquisition_attempted == is_acquisition_attempted
        detector_invoked == is_detector_invoked
        detections == IF detector_invoked THEN newly_acquired_satellites ELSE << >>
        \* the constructor call of the pipeline of the first result raises, and
        \* nothing catches it, or the pipelines of all results are constructed
        constructed ==
            \/ detections = << >>
            \/ call_outcome(tracker_init_parameters, pipeline_tracker_arguments)
                   = "returned"
        pipelines == IF constructed
                     THEN pipelines_after_acquisition(
                              tracked_satellite_ids_to_processing_pipelines,
                              detections, objects_created)
                     ELSE tracked_satellite_ids_to_processing_pipelines
        \* a dict iterates in insertion order; all its keys are inserted by one
        \* acquisition, in the order of the detector's results
        tracked_in_order == SelectSeq(satellite_ids_eligible_for_acquisition,
                                      LAMBDA s : s \in DOMAIN pipelines)
        \* a pipeline made in this step starts with an empty history
        histories == [s \in DOMAIN pipeline_history |->
                         IF s \in Range(detections) THEN NoPipelineHistory
                         ELSE pipeline_history[s]]
        tracked == IF constructed
                   THEN track_acquired_satellites(histories, tracked_in_order, 1,
                                                  sample_index, inputs)
                   ELSE pipeline_history
    IN  \* nothing catches an exception that leaves step: it ends the run
        /\ receiver_step.raised = "none"
        /\ rolling_samples_buffer' = buffer
        /\ antenna_cursor' = antenna_cursor + 1
        /\ tracked_satellite_ids_to_processing_pipelines' = pipelines
        /\ objects_created' =
              IF constructed THEN objects_created + 3 * Len(detections)
              ELSE objects_created
        /\ pipeline_history' = tracked
        /\ receiver_step' =
              [sample_index |-> sample_index,
               tracked_before |-> tracked_before,
               acquisition_attempted |-> acquisition_attempted,
               detector_invoked |-> detector_invoked,
               detector_samples |-> IF detector_invoked THEN buffer ELSE << >>,
               detections |-> detections,
               raised |-> IF constructed THEN raised_by(tracked) ELSE "TypeError"]
        /\ UNCHANGED satellite_ids_eligible_for_acquisition

\* GpsReceiver.step as receiver.py is written: the constructor call of a
\* pipeline returns a tracker
step(newly_acquired_satellites, inputs) ==
    step_with_tracker(tracker_init_parameters_of_receiver,
                      newly_acquired_satellites, inputs)

\* GpsReceiver.__init__
ReceiverInit ==
    /\ satellite_ids_eligible_for_acquisition = << 32 >>
    /\ rolling_samples_buffer = << >>
    /\ tracked_satellite_ids_to_processing_pipelines = << >>
    /\ antenna_cursor = 0
    /\ objects_created = 0
    /\ pipeline_history = [s \in GpsSatelliteIds |-> NoPipelineHistory]
    /\ receiver_step =
          [sample_index |-> -1, tracked_before |-> {},
           acquisition_attempted |-> FALSE, detector_invoked |-> FALSE,
           detector_samples |-> << >>, detections |-> << >>, raised |-> "none"]

(***************************************************************************)
(* Receiver: GpsReceiver.decode_nav_bits.                                  *)
(***************************************************************************)
\* decode_nav_bits is given pseudosymbol lists of at most MaxGroups groups
MaxGroups == 2

\* gps.utils.chunks(li, chunk_size), as the list of the chunks it yields
chunks(li, chunk_size) ==
    [k \in 1..((Len(li) + chunk_size - 1) \div chunk_size) |->
        SubSeq(li, (k - 1) * chunk_size + 1,
               IF k * chunk_size < Len(li) THEN k * chunk_size ELSE Len(li))]

\* the slice li[start:]
slice_from(li, start) == SubSeq(li, start + 1, Len(li))

\* np.mean(confidences) for one roll, as <<sum, count>>; a count of 0 is nan
confidence_score(navigation_bit_pseudosymbols, roll) ==
    LET groups == chunks(slice_from(navigation_bit_pseudosymbols, roll), 20)
        confidences == [k \in DOMAIN groups |-> Abs(Sum(groups[k]))]
    IN  << Sum(confidences), Len(confidences) >>

\* np.argmax of a list of means, 0-based: the first nan if there is one, else
\* the first of the largest values
np_argmax(scores) ==
    LET is_nan(i) == scores[i][2] = 0
        less(i, j) == scores[i][1] * scores[j][2] < scores[j][1] * scores[i][2]
        is_first(P(_), i) == P(i) /\ \A j \in 1..(i - 1) : ~ P(j)
        is_max(i) == \A j \in DOMAIN scores : ~ less(i, j)
    IN  IF \E i \in DOMAIN scores : is_nan(i)
        THEN (CHOOSE i \in DOMAIN scores : is_first(is_nan, i)) - 1
        ELSE (CHOOSE i \in DOMAIN scores : is_first(is_max, i)) - 1

\* the digital bit of a group, were a sum of 0 folded to 1
digital_bit_nonnegative(bit_value) == IF bit_value >= 0 THEN 1 ELSE 0

\* "1 if b == 1.0 else 0"
digital_bit(bit_value) == IF bit_value = 1 THEN 1 ELSE 0

\* "0 if b == 1.0 else 1"
inverted_bit(bit_value) == IF bit_value = 1 THEN 0 ELSE 1

\* GpsReceiver.decode_nav_bits(sat), up to the lists it prints
decode_nav_bits(navigation_bit_pseudosymbols) ==
    LET confidence_scores ==
            [r \in 1..20 |-> confidence_score(navigation_bit_pseudosymbols, r - 1)]
        best_offset == np_argmax(confidence_scores)
        bit_phase == best_offset
        phase_shifted_bits == slice_from(navigation_bit_pseudosymbols, bit_phase)
        groups == chunks(phase_shifted_bits, 20)
        bits == [k \in DOMAIN groups |-> np_sign(Sum(groups[k]))]
    IN  [navigation_bit_pseudosymbols |-> navigation_bit_pseudosymbols,
         called |-> TRUE,
         best_offset |-> best_offset,
         bits |-> bits,
         digital_bits |-> [k \in DOMAIN bits |-> digital_bit(bits[k])],
         inverted_bits |-> [k \in DOMAIN bits |-> inverted_bit(bits[k])]]

\* 20 pseudosymbols of one navigation bit, as the tracker can record them:
\* a clean +1 or -1 bit, or a noisy one whose symbols alternate
PseudosymbolGroup(kind) ==
    CASE kind = "ones" -> [i \in 1..20 |-> 1]
      [] kind = "minus_ones" -> [i \in 1..20 |-> -1]
      [] kind = "alternating_from_minus_one" ->
           [i \in 1..20 |-> IF i % 2 = 1 THEN -1 ELSE 1]
      [] kind = "alternating_from_one" ->
           [i \in 1..20 |-> IF i % 2 = 1 THEN 1 ELSE -1]

PseudosymbolGroupKinds ==
    {"ones", "minus_ones", "alternating_from_minus_one", "alternating_from_one"}

RECURSIVE Concat(_)
\* the concatenation of a list of lists
Concat(lists) ==
    IF lists = << >> THEN << >> ELSE Head(lists) \o Concat(Tail(lists))

\* the symbols recorded before the first whole bit
LeadLengths == {0, 1, 7}

\* the pseudosymbol lists decode_nav_bits is called with
DecodeInputs ==
    { [i \in 1..lead |-> -1] \o Concat([k \in DOMAIN kinds |-> PseudosymbolGroup(kinds[k])]) :
        lead \in LeadLengths, kinds \in SeqsUpTo(PseudosymbolGroupKinds, MaxGroups) }

\* before decode_nav_bits is called on some tracking parameters
DecodeInit ==
    \E navigation_bit_pseudosymbols \in DecodeInputs :
       decode_call = [navigation_bit_pseudosymbols |-> navigation_bit_pseudosymbols,
                      called |-> FALSE, best_offset |-> 0, bits |-> << >>,
                      digital_bits |-> << >>, inverted_bits |-> << >>]

(***************************************************************************)
(* Specifications.                                                         *)
(***************************************************************************)
\* a tracker that is not called: the other runs leave it as created
TrackerIdle ==
    /\ tracking_params = GpsSatelliteTrackingParameters(0, 0, 0)
    /\ tracker_is = << >>
    /\ tracker_qs = << >>
    /\ tracker_clock_ms = 20
    /\ tracker_calls = 0
    /\ tracker_call = [seconds_since_start_ms |-> 0, peak_offset |-> 0,
                       peak |-> <<0, 0>>, was_locked |-> FALSE, result |-> "none"]

\* a world model that is not called: the other runs leave it empty
WorldModelIdle == WorldModelInit

\* a receiver that is not stepped
ReceiverIdle == ReceiverInit

\* decode_nav_bits is not called
DecodeIdle ==
    decode_call = [navigation_bit_pseudosymbols |-> << >>,
                   called |-> FALSE, best_offset |-> 0, bits |-> << >>,
                   digital_bits |-> << >>, inverted_bits |-> << >>]

\* the decoder of some satellite emits a subframe
HandleSubframeEmitted ==
    /\ \E satellite_id \in GpsSatelliteIds, subframe \in NavigationMessageSubframes :
          handle_subframe_emitted(satellite_id, subframe)
    /\ UNCHANGED <<tracker_vars, receiver_vars, decode_vars>>

\* one millisecond of samples is given to the tracker
ProcessSamples ==
    /\ tracker_calls < MaxTrackerCalls
    /\ \E k \in PeakOffsets, p \in PeakValues : process_samples(k, p)
    /\ UNCHANGED <<wm_vars, receiver_vars, decode_vars>>

\* one millisecond of a steady signal is given to the tracker
ProcessSteadySamples ==
    /\ tracker_calls < MaxLongRunCalls
    /\ process_samples(0, SteadySignalPeak(tracker_clock_ms))
    /\ UNCHANGED <<wm_vars, receiver_vars, decode_vars>>

\* one millisecond of samples is given to a tracker that a steady signal has
\* brought to the point where its phase-error history can show lock: the
\* 250th call and the two that follow it take any prompt peak
ProcessSamplesAroundLock ==
    /\ tracker_calls < MaxLockedRunCalls
    /\ \E p \in IF tracker_calls \in (previous_milliseconds_to_consider - 1)
                                     .. (previous_milliseconds_to_consider + 1)
                THEN PeakValues
                ELSE { SteadySignalPeak(tracker_clock_ms) } :
          process_samples(0, p)
    /\ UNCHANGED <<wm_vars, receiver_vars, decode_vars>>

\* the receiver consumes one millisecond of antenna samples
Step ==
    /\ antenna_cursor < MaxReceiverSteps
    /\ \E newly_acquired_satellites \in
              IF is_detector_invoked
              THEN DetectorResults(satellite_ids_eligible_for_acquisition)
              ELSE { << >> } :
          \E inputs \in [DOMAIN tracked_satellite_ids_to_processing_pipelines
                            \cup Range(newly_acquired_satellites) -> PipelineInputs] :
             step(newly_acquired_satellites, inputs)
    /\ UNCHANGED <<wm_vars, tracker_vars, decode_vars>>

\* the receiver, with GpsSatelliteTracker of tracker.py, consumes one
\* millisecond of antenna samples
StepAsBuilt ==
    /\ antenna_cursor < MaxAsBuiltSteps
    /\ \E newly_acquired_satellites \in
              IF is_detector_invoked
              THEN DetectorResults(satellite_ids_eligible_for_acquisition)
              ELSE { << >> } :
          \E inputs \in [DOMAIN tracked_satellite_ids_to_processing_pipelines
                            \cup Range(newly_acquired_satellites) -> PipelineInputs] :
             step_with_tracker(GpsSatelliteTracker_init_parameters,
                               newly_acquired_satellites, inputs)
    /\ UNCHANGED <<wm_vars, tracker_vars, decode_vars>>

\* decode_nav_bits is called on the pseudosymbols of some tracking parameters
DecodeNavBits ==
    /\ ~ decode_call.called
    /\ decode_call' = decode_nav_bits(decode_call.navigation_bit_pseudosymbols)
    /\ UNCHANGED <<wm_vars, tracker_vars, receiver_vars>>

WorldModelNext == HandleSubframeEmitted

\* an empty world model; nothing else is called
WorldModelSpecInit == WorldModelInit /\ TrackerIdle /\ ReceiverIdle /\ DecodeIdle

WorldModelSpec == WorldModelSpecInit /\ [][WorldModelNext]_vars

TrackerNext == ProcessSamples

\* a tracker as created from an acquisition result; nothing else is called
TrackerSpecInit == WorldModelIdle /\ TrackerInit /\ ReceiverIdle /\ DecodeIdle

TrackerSpec == TrackerSpecInit /\ [][TrackerNext]_vars

TrackerLongRunNext == ProcessSteadySamples

\* the long runs start from one acquisition result
TrackerLongRunInit ==
    /\ WorldModelIdle
    /\ TrackerInit
    /\ tracking_params = GpsSatelliteTrackingParameters(0, 0, 0)
    /\ ReceiverIdle
    /\ DecodeIdle

TrackerLongRunSpec == TrackerLongRunInit /\ [][TrackerLongRunNext]_vars

TrackerLockedRunNext == ProcessSamplesAroundLock

\* the runs through lock start from one acquisition result
TrackerLockedRunInit ==
    /\ WorldModelIdle
    /\ tracking_params = GpsSatelliteTrackingParameters(0, 0, 0)
    /\ tracker_is = << >>
    /\ tracker_qs = << >>
    /\ tracker_clock_ms \in LockedRunStartTimesMs
    /\ tracker_calls = 0
    /\ tracker_call = [seconds_since_start_ms |-> 0, peak_offset |-> 0,
                       peak |-> <<0, 0>>, was_locked |-> FALSE, result |-> "none"]
    /\ ReceiverIdle
    /\ DecodeIdle

TrackerLockedRunSpec == TrackerLockedRunInit /\ [][TrackerLockedRunNext]_vars

ReceiverNext == Step

\* a receiver as constructed; the world model it has no reference to stays
\* empty
ReceiverSpecInit == WorldModelIdle /\ TrackerIdle /\ ReceiverInit /\ DecodeIdle

ReceiverSpec == ReceiverSpecInit /\ [][ReceiverNext]_vars

ReceiverAsBuiltNext == StepAsBuilt

\* a receiver as constructed, with the classes of src/
ReceiverAsBuiltInit == WorldModelIdle /\ TrackerIdle /\ ReceiverInit /\ DecodeIdle

ReceiverAsBuiltSpec == ReceiverAsBuiltInit /\ [][ReceiverAsBuiltNext]_vars

DecodeNext == DecodeNavBits

\* decode_nav_bits on the pseudosymbols some tracker recorded
DecodeSpecInit == WorldModelIdle /\ TrackerIdle /\ ReceiverIdle /\ DecodeInit

DecodeSpec == DecodeSpecInit /\ [][DecodeNext]_vars

(***************************************************************************)
(* Claims about the world model (WorldModelSpec).                          *)
(***************************************************************************)
\* the parameter sets of satellite s as handle_subframe_emitted finds them:
\* the defaultdicts hand out an empty set for a satellite not stored yet
orbital_parameters_of(dict, s) == IF s \in DOMAIN dict THEN dict[s] ELSE OrbitalParameters

time_parameters_of(dict, s) == IF s \in DOMAIN dict THEN dict[s] ELSE TimeParameters

\* a handle_subframe_emitted call was made
WorldModelCalled == wm_call.satellite_id \in GpsSatelliteIds

\* C1: over any sequence of handle_subframe_emitted calls, at most one
\* DeterminedSatelliteOrbitEvent is returned for each satellite.
C1_AtMostOneOrbitEventPerSatellite ==
    \A s \in GpsSatelliteIds : determined_orbit_events[s] <= 1

\* C1 witness: the event was returned for a satellite, and a later subframe 2
\* or 3 for the same satellite was handled.
C1_Witness ==
    /\ WorldModelCalled
    /\ determined_orbit_events[wm_call.satellite_id] = 1
    /\ wm_call.subframe.subframe_id \in {2, 3}
    /\ events_to_return = << >>

\* C2: a call for satellite S returns a DeterminedSatelliteOrbitEvent for S
\* iff S's orbital set was incomplete before and is complete after the call;
\* that is exactly the first call after which both a subframe 2 and a
\* subframe 3 have been handled for S; subframes 1, 4, 5 never cause it.
C2_EventIffOrbitJustCompleted ==
    [][ LET s == wm_call'.satellite_id
            before == orbital_parameters_of(satellite_ids_to_orbital_parameters, s)
            after == satellite_ids_to_orbital_parameters'[s]
            all_six_known == \A t \in OrbitalParameterType : after[t] # None
            returned == events_to_return' # << >>
        IN  /\ returned <=> ((\E t \in OrbitalParameterType : before[t] = None)
                             /\ all_six_known)
            /\ returned =>
                  events_to_return' = << DeterminedSatelliteOrbitEvent(s, after) >>
            /\ returned <=> (/\ ephemeris_subframes_handled'[s] = {2, 3}
                             /\ ephemeris_subframes_handled[s] # {2, 3})
            /\ wm_call'.subframe.subframe_id \in {1, 4, 5} => ~ returned
      ]_vars

\* C2 witness: the event is returned by a subframe 2 that arrives after the
\* subframe 3 (the order opposite to the broadcast order).
C2_Witness ==
    /\ WorldModelCalled
    /\ wm_call.subframe.subframe_id = 2
    /\ events_to_return # << >>
    /\ events_to_return[1].satellite_id = wm_call.satellite_id

\* C3: a call for satellite S leaves the orbital and the time parameters
\* stored for every other satellite unchanged (and stores no other satellite).
C3_OtherSatellitesUnchanged ==
    [][ LET s == wm_call'.satellite_id
        IN  /\ \A t \in DOMAIN satellite_ids_to_orbital_parameters \ {s} :
                  /\ t \in DOMAIN satellite_ids_to_orbital_parameters'
                  /\ satellite_ids_to_orbital_parameters'[t] =
                        satellite_ids_to_orbital_parameters[t]
            /\ \A t \in DOMAIN satellite_ids_to_time_parameters \ {s} :
                  /\ t \in DOMAIN satellite_ids_to_time_parameters'
                  /\ satellite_ids_to_time_parameters'[t] =
                        satellite_ids_to_time_parameters[t]
            /\ DOMAIN satellite_ids_to_orbital_parameters' =
                  DOMAIN satellite_ids_to_orbital_parameters \cup {s}
            /\ DOMAIN satellite_ids_to_time_parameters' =
                  DOMAIN satellite_ids_to_time_parameters \cup {s}
      ]_vars

\* C3 witness: a slot-writing subframe was handled for S while another
\* satellite had parameters stored.
C3_Witness ==
    /\ WorldModelCalled
    /\ wm_call.subframe.subframe_id \in {1, 2, 3}
    /\ \E t \in DOMAIN satellite_ids_to_orbital_parameters \ {wm_call.satellite_id} :
          /\ \E slot \in OrbitalParameterType :
                satellite_ids_to_orbital_parameters[t][slot] # None
          /\ satellite_ids_to_time_parameters[t]["WEEK_NUMBER"] # None

\* C4: subframe 1 sets only the week number; subframe 2 only mean anomaly,
\* eccentricity and semi-major axis (the square of the transmitted root);
\* subframe 3 only inclination, argument of perigee and longitude of
\* ascending node; subframes 4 and 5 nothing. Other slots keep their value.
C4_SubframeWritesOnlyItsSlots ==
    [][ LET s == wm_call'.satellite_id
            sf == wm_call'.subframe
            orbital == orbital_parameters_of(satellite_ids_to_orbital_parameters, s)
            time == time_parameters_of(satellite_ids_to_time_parameters, s)
            orbital_after == satellite_ids_to_orbital_parameters'[s]
            time_after == satellite_ids_to_time_parameters'[s]
            written ==
                CASE sf.subframe_id = 1 ->
                       [WEEK_NUMBER |-> sf.week_num]
                  [] sf.subframe_id = 2 ->
                       [MEAN_ANOMALY_AT_REFERENCE_TIME |-> sf.mean_anomaly_at_reference_time,
                        ECCENTRICITY |-> sf.eccentricity,
                        SEMI_MAJOR_AXIS |-> sf.sqrt_semi_major_axis * sf.sqrt_semi_major_axis]
                  [] sf.subframe_id = 3 ->
                       [INCLINATION |-> sf.inclination_angle,
                        ARGUMENT_OF_PERIGEE |-> sf.argument_of_perigee,
                        LONGITUDE_OF_ASCENDING_NODE |-> sf.longitude_of_ascending_node]
                  [] OTHER -> << >>
            expected(slot, old) ==
                IF slot \in DOMAIN written THEN << written[slot] >> ELSE old
        IN  /\ \A slot \in OrbitalParameterType :
                  orbital_after[slot] = expected(slot, orbital[slot])
            /\ \A slot \in TimeParameterType :
                  time_after[slot] = expected(slot, time[slot])
      ]_vars

\* C4 witness: a subframe 2 was handled for a satellite whose subframe-3
\* slots and week number were already filled.
C4_Witness ==
    /\ WorldModelCalled
    /\ wm_call.subframe.subframe_id = 2
    /\ LET s == wm_call.satellite_id
       IN  /\ satellite_ids_to_orbital_parameters[s]["INCLINATION"] # None
           /\ satellite_ids_to_time_parameters[s]["WEEK_NUMBER"] # None
           /\ satellite_ids_to_orbital_parameters[s]["SEMI_MAJOR_AXIS"] =
                 << wm_call.subframe.sqrt_semi_major_axis
                      * wm_call.subframe.sqrt_semi_major_axis >>

\* C5: once a satellite's orbital set is complete, a later subframe 2 or 3
\* for it overwrites the corresponding slots with the new values, the set
\* stays complete, no event is returned; and no slot ever returns to empty.
C5_OverwriteKeepsCompleteAndSilent ==
    [][ LET s == wm_call'.satellite_id
            sf == wm_call'.subframe
            orbital == orbital_parameters_of(satellite_ids_to_orbital_parameters, s)
            orbital_after == satellite_ids_to_orbital_parameters'[s]
        IN  /\ ((\A t \in OrbitalParameterType : orbital[t] # None)
                  /\ sf.subframe_id \in {2, 3}) =>
                   /\ sf.subframe_id = 2 =>
                        /\ orbital_after["MEAN_ANOMALY_AT_REFERENCE_TIME"] =
                              << sf.mean_anomaly_at_reference_time >>
                        /\ orbital_after["ECCENTRICITY"] = << sf.eccentricity >>
                        /\ orbital_after["SEMI_MAJOR_AXIS"] =
                              << sf.sqrt_semi_major_axis * sf.sqrt_semi_major_axis >>
                   /\ sf.subframe_id = 3 =>
                        /\ orbital_after["INCLINATION"] = << sf.inclination_angle >>
                        /\ orbital_after["ARGUMENT_OF_PERIGEE"] =
                              << sf.argument_of_perigee >>
                        /\ orbital_after["LONGITUDE_OF_ASCENDING_NODE"] =
                              << sf.longitude_of_ascending_node >>
                   /\ \A t \in OrbitalParameterType : orbital_after[t] # None
                   /\ events_to_return' = << >>
            /\ \A t \in DOMAIN satellite_ids_to_orbital_parameters :
                  \A slot \in OrbitalParameterType :
                     satellite_ids_to_orbital_parameters[t][slot] # None =>
                        satellite_ids_to_orbital_parameters'[t][slot] # None
      ]_vars

\* C5 witness: with the set complete and its event already returned, a
\* subframe 3 of another issue than the stored subframe-2 data was handled.
C5_Witness ==
    /\ WorldModelCalled
    /\ wm_call.subframe.subframe_id = 3
    /\ events_to_return = << >>
    /\ LET s == wm_call.satellite_id
       IN  /\ determined_orbit_events[s] = 1
           /\ is_complete(satellite_ids_to_orbital_parameters[s])
           /\ satellite_ids_to_orbital_parameters[s]["INCLINATION"] =
                 << wm_call.subframe.inclination_angle >>
           /\ satellite_ids_to_orbital_parameters[s]["ECCENTRICITY"][1] + 2 #
                 wm_call.subframe.inclination_angle

(***************************************************************************)
(* Claims about the tracker (TrackerSpec, TrackerLongRunSpec).             *)
(***************************************************************************)
\* C6: after every process_samples call, whatever acquisition handed over
\* and whatever the samples, the code phase is an integer in [0, 2046) and
\* the carrier phase is in [0, 2 pi).
C6_PhasesInRangeAfterEveryCall ==
    tracker_calls > 0 =>
       /\ tracking_params.current_prn_code_phase_shift
             \in 0..(SAMPLES_PER_PRN_TRANSMISSION - 1)
       /\ tracking_params.current_carrier_wave_phase_shift
             \in 0..(TauInPhaseUnits - 1)

\* C6 witness: the first call on a tracker whose acquisition result had a
\* negative carrier phase; the code phase was slid forward across the end of
\* the PRN period.
C6_Witness ==
    /\ tracker_calls = 1
    /\ tracker_call.peak_offset = 1
    /\ tracker_call.peak = <<1, 0>>
    /\ tracking_params.current_prn_code_phase_shift = 0
    /\ tracking_params.current_carrier_wave_phase_shift =
          TauInPhaseUnits - (TauInPhaseUnits \div 4)

\* C7: every pseudosymbol recorded in the ring and returned is -1 or +1;
\* a prompt peak whose real part is exactly 0 gives +1, and no error is
\* raised.
C7_PseudosymbolsAreMinusOrPlusOne ==
    /\ \A i \in DOMAIN tracking_params.navigation_bit_pseudosymbols :
          tracking_params.navigation_bit_pseudosymbols[i] \in {-1, 1}
    /\ tracker_call.result \in {"none", "MINUS_ONE", "ONE"}
    /\ (tracker_calls > 0 /\ tracker_call.peak[1] = 0) => tracker_call.result = "ONE"

\* C8: each process_samples call appends exactly one entry to the
\* pseudosymbol ring, to the Doppler history and to the carrier-phase
\* history, so after n calls each of the three has length n.
C8_OneEntryPerCall ==
    /\ [][ LET p == tracking_params
               q == tracking_params'
           IN  /\ q.navigation_bit_pseudosymbols =
                     Append(p.navigation_bit_pseudosymbols,
                            q.navigation_bit_pseudosymbols[
                                Len(q.navigation_bit_pseudosymbols)])
               /\ q.doppler_shifts =
                     Append(p.doppler_shifts, q.current_doppler_shift)
               /\ q.carrier_wave_phases =
                     Append(p.carrier_wave_phases, q.current_carrier_wave_phase_shift)
         ]_vars
    /\ [](/\ Len(tracking_params.navigation_bit_pseudosymbols) = tracker_calls
          /\ Len(tracking_params.doppler_shifts) = tracker_calls
          /\ Len(tracking_params.carrier_wave_phases) = tracker_calls)

\* C8 witness: three calls, at 4998, 4999 and 5000 ms: the second emptied the
\* phase-error history and the third the I / Q lists.
C8_Witness ==
    /\ tracker_calls = 3
    /\ tracker_call.seconds_since_start_ms = 5000
    /\ Len(tracking_params.navigation_bit_pseudosymbols) = 3
    /\ Len(tracking_params.carrier_wave_phase_errors) = 1
    /\ tracker_is = << >>

\* C9: the length of the pseudosymbol ring never exceeds a fixed bound
\* (here the smallest bound the claim allows, 500), however many times
\* process_samples is called.
C9_RingLengthBounded ==
    Len(tracking_params.navigation_bit_pseudosymbols) <= 500

\* C10: the tracker is never judged locked while the phase-error history
\* holds fewer than 250 entries; so it is unlocked during its first 250
\* process_samples calls.
C10_NoLockBelow250Errors ==
    /\ Len(tracking_params.carrier_wave_phase_errors) < 250 =>
          ~ is_locked(tracking_params.carrier_wave_phase_errors,
                      tracker_is, tracker_qs)
    /\ tracker_calls <= 250 => ~ tracker_call.was_locked

\* C10 witness: fewer than 250 phase errors are recorded, and all of the
\* variance, I-channel and constellation conditions hold on measured data.
C10_Witness ==
    /\ tracker_calls > 0
    /\ Len(tracking_params.carrier_wave_phase_errors) \in 1..249
    /\ Len(tracker_is) > 2
    /\ is_locked_on_any_history(tracking_params.carrier_wave_phase_errors,
                                tracker_is, tracker_qs)

\* C21: a process_samples call changes the code phase by at most one sample
\* modulo 2046: it is one more when the peak offset k is in 1..1023, one less
\* when k > 1023 and the same when k = 0, and it wraps at both ends.
C21_CodePhaseSlidesByOneSample ==
    [][ LET k == tracker_call'.peak_offset
            old == tracking_params.current_prn_code_phase_shift
            new == tracking_params'.current_prn_code_phase_shift
        IN  /\ (k >= 1 /\ k <= 1023) =>
                   new = (old + 1) % SAMPLES_PER_PRN_TRANSMISSION
            /\ k > 1023 =>
                   new = (old - 1) % SAMPLES_PER_PRN_TRANSMISSION
            /\ k = 0 => new = old % SAMPLES_PER_PRN_TRANSMISSION
            /\ (new - old) % SAMPLES_PER_PRN_TRANSMISSION
                   \in {0, 1, SAMPLES_PER_PRN_TRANSMISSION - 1}
      ]_vars

\* C21 witness: the first call had the peak just past the middle of the PRN
\* period, at offset 1024, and took a code phase at the start of the period
\* back across it, to 2045.
C21_Witness ==
    /\ tracker_calls = 1
    /\ tracker_call.peak_offset = 1024
    /\ tracking_params.current_prn_code_phase_shift =
          SAMPLES_PER_PRN_TRANSMISSION - 1

\* C22: each call takes the loop-filter gains of a 3 Hz bandwidth if the
\* tracker is judged locked on the phase errors recorded before this call's
\* error e is appended, and of 6 Hz otherwise; it then adds alpha * e to the
\* carrier phase (modulo 2 pi) and beta * e to the Doppler shift, and appends
\* e to the phase-error history.
C22_GainsFollowLock ==
    [][ LET peak == tracker_call'.peak
            e == peak[1] * peak[2]
            locked == is_locked(tracking_params.carrier_wave_phase_errors,
                                Append(tracker_is, peak[1]),
                                Append(tracker_qs, peak[2]))
            loop_bandwidth == IF locked THEN 3 ELSE 6
            alpha == loop_bandwidth
            beta == loop_bandwidth * loop_bandwidth
        IN  /\ tracker_call'.was_locked = locked
            /\ tracking_params'.current_carrier_wave_phase_shift =
                   (tracking_params.current_carrier_wave_phase_shift + alpha * e)
                       % TauInPhaseUnits
            /\ tracking_params'.current_doppler_shift =
                   tracking_params.current_doppler_shift + beta * e
            /\ \/ tracking_params'.carrier_wave_phase_errors =
                      Append(tracking_params.carrier_wave_phase_errors, e)
               \/ /\ tracker_call'.seconds_since_start_ms % 5000 >= 4990
                  /\ tracking_params'.carrier_wave_phase_errors = << >>
      ]_vars

\* C22 witness: the 250th call, not locked, had the phase error -1 and took
\* the Doppler shift down by the 6 Hz beta; the 251st, locked, had the phase
\* error +1 and took it up by the 3 Hz beta.
C22_Witness ==
    /\ tracker_calls = previous_milliseconds_to_consider + 1
    /\ tracker_call.was_locked
    /\ tracker_call.peak = <<1, 1>>
    /\ tracking_params.current_doppler_shift = 3 * 3 - 6 * 6
    /\ tracking_params.current_carrier_wave_phase_shift =
          (3 - 6) % TauInPhaseUnits

\* C23: judging the tracker locked or unlocked, and passing from one to the
\* other, changes nothing but the (alpha, beta) pair the loop filter applies:
\* whether or not the call finds the tracker locked, the code phase follows
\* the peak offset alone, every history keeps all its entries and gains this
\* call's, and the only lists emptied are the ones the timestamp empties
\* (the phase errors in the last 10 ms of every 5 s, the prompt I / Q lists
\* on a whole second).
C23_LockChangesOnlyTheGains ==
    [][ LET p == tracking_params
            q == tracking_params'
            t == tracker_call'.seconds_since_start_ms
            peak == tracker_call'.peak
        IN  /\ q.current_prn_code_phase_shift =
                   p.current_prn_code_phase_shift % SAMPLES_PER_PRN_TRANSMISSION
            /\ q.navigation_bit_pseudosymbols =
                   Append(p.navigation_bit_pseudosymbols, np_sign(peak[1]))
            /\ q.doppler_shifts =
                   Append(p.doppler_shifts, q.current_doppler_shift)
            /\ q.carrier_wave_phases =
                   Append(p.carrier_wave_phases, q.current_carrier_wave_phase_shift)
            /\ q.carrier_wave_phase_errors =
                   IF t % 5000 >= 4990
                   THEN << >>
                   ELSE Append(p.carrier_wave_phase_errors, peak[1] * peak[2])
            /\ tracker_is' =
                   IF t % 1000 = 0 THEN << >> ELSE Append(tracker_is, peak[1])
            /\ tracker_qs' =
                   IF t % 1000 = 0 THEN << >> ELSE Append(tracker_qs, peak[2])
      ]_vars

\* C23 witness: the 251st call is the first that finds the tracker locked,
\* and after it every history holds the entries of all 251 calls.
C23_Witness ==
    /\ tracker_calls = previous_milliseconds_to_consider + 1
    /\ tracker_call.was_locked
    /\ Len(tracking_params.carrier_wave_phase_errors) = tracker_calls
    /\ Len(tracking_params.doppler_shifts) = tracker_calls
    /\ Len(tracking_params.carrier_wave_phases) = tracker_calls
    /\ Len(tracking_params.navigation_bit_pseudosymbols) = tracker_calls
    /\ Len(tracker_is) = tracker_calls
    /\ Len(tracker_qs) = tracker_calls

\* C24: the tracker is judged locked only when all three conditions hold on
\* measured data (variance of the last 250 phase errors below 900, mean of
\* the variances of the positive and of the negative prompt I values below
\* 2, centred angle of the left pole of the constellation below 6 degrees):
\* lock is never reported while the I-channel or the constellation condition
\* has not been evaluated on recorded prompt samples, that is, while _is and
\* _qs hold too few entries for _is_locked to evaluate them.
C24_LockOnlyOnMeasuredData ==
    (/\ tracker_calls > 0
     /\ tracker_call.was_locked
     /\ tracker_call.seconds_since_start_ms % 1000 # 0) =>
        \* _is and _qs are as they were when the call judged lock
        /\ Len(tracker_is) > 2
        /\ Len(tracker_qs) > 2
        /\ does_i_channel_look_locked(tracker_is)
        /\ is_constellation_rotation_acceptable(tracker_is, tracker_qs)

ReceiverStepped == receiver_step.sample_index >= 0

\* the windows the buffer holds after the step on window sample_index
LastWindows(sample_index) ==
    [i \in 1..ACQUISITION_INTEGRATION_PERIOD_MS |->
        sample_index - ACQUISITION_INTEGRATION_PERIOD_MS + i]

C13_AcquisitionSkippedUntilBufferPrimed ==
    ReceiverStepped =>
       /\ receiver_step.detector_invoked =>
             /\ Len(receiver_step.detector_samples) = ACQUISITION_INTEGRATION_PERIOD_MS
             /\ receiver_step.detector_samples = LastWindows(receiver_step.sample_index)
       /\ receiver_step.sample_index < ACQUISITION_INTEGRATION_PERIOD_MS - 1 =>
             /\ receiver_step.acquisition_attempted
             /\ ~ receiver_step.detector_invoked
             /\ receiver_step.raised = "none"
             /\ tracked_satellite_ids_to_processing_pipelines = << >>
             /\ objects_created = 0
             /\ satellite_ids_eligible_for_acquisition = << 32 >>
       /\ receiver_step.sample_index = ACQUISITION_INTEGRATION_PERIOD_MS - 1 =>
             /\ receiver_step.acquisition_attempted
             /\ receiver_step.detector_invoked

\* C13 witness: the 19th step: the attempt was made on 19 windows and skipped.
C13_Witness ==
    /\ receiver_step.sample_index = ACQUISITION_INTEGRATION_PERIOD_MS - 2
    /\ Len(rolling_samples_buffer) = ACQUISITION_INTEGRATION_PERIOD_MS - 1
    /\ receiver_step.acquisition_attempted
    /\ ~ receiver_step.detector_invoked

first_without_callback(events) ==
    IF \E i \in DOMAIN events : events[i].type \notin integrator_event_type_to_callback
    THEN CHOOSE i \in DOMAIN events :
            /\ events[i].type \notin integrator_event_type_to_callback
            /\ \A j \in 1..(i - 1) :
                  events[j].type \in integrator_event_type_to_callback
    ELSE 0

IsPrefix(s, t) == Len(s) <= Len(t) /\ s = SubSeq(t, 1, Len(s))

objects_of(pipelines) ==
    UNION { { pipelines[s].tracker, pipelines[s].pseudosymbol_integrator,
              pipelines[s].navigation_message_decoder } : s \in DOMAIN pipelines }

C26_DetectedSatelliteGetsProvisionalPipeline ==
    ReceiverStepped =>
       \A s \in Range(receiver_step.detections) :
          /\ receiver_step.raised # "TypeError"
          /\ s \in DOMAIN tracked_satellite_ids_to_processing_pipelines
          /\ tracked_satellite_ids_to_processing_pipelines[s].satellite = s
          /\ tracked_satellite_ids_to_processing_pipelines[s].state
                 = "PROVISIONAL_PROBE"

twenty_wide_chunks(navigation_bit_pseudosymbols, roll) ==
    [k \in 1..((Len(navigation_bit_pseudosymbols) - roll) \div 20) |->
        SubSeq(navigation_bit_pseudosymbols,
               roll + (k - 1) * 20 + 1, roll + k * 20)]

\* the sum of |sum(chunk)| over the chunks
sum_of_confidences(groups) == Sum([k \in DOMAIN groups |-> Abs(Sum(groups[k]))])

\* C27: bit-phase determination over a pseudosymbol list: the score of an
\* offset r in 0..19 is the mean of |sum(chunk)| over the 20-wide chunks of
\* the list after its first r entries, every chunk scored has exactly 20
\* entries, and the chosen bit phase is the lowest offset in 0..19 whose
\* score is maximal.
C27_BitPhaseMaximisesMeanOverTwentyWideChunks ==
    decode_call.called =>
       LET li == decode_call.navigation_bit_pseudosymbols
           scored(r) == chunks(slice_from(li, r), 20)
           whole(r) == twenty_wide_chunks(li, r)
           \* the mean over the chunks of r is at least that of q
           at_least(r, q) ==
               sum_of_confidences(whole(r)) * Len(whole(q))
                   >= sum_of_confidences(whole(q)) * Len(whole(r))
           has_score(r) == whole(r) # << >>
           best == decode_call.best_offset
       IN  /\ \A r \in 0..19 : \A k \in DOMAIN scored(r) : Len(scored(r)[k]) = 20
           /\ best \in 0..19
           /\ (\E r \in 0..19 : has_score(r)) => has_score(best)
           /\ \A r \in 0..19 : has_score(r) => at_least(best, r)
           /\ \A r \in 0..(best - 1) : has_score(r) => ~ at_least(r, best)

=============================================================================
